---- MODULE Spec2Model ----
(***************************************************************************)
(* Model of spot_driver/teleop_funcs.py: the TeleopFuncs joystick command  *)
(* arbiter.  Each thread is one invocation of handle_joy; the steps of an  *)
(* invocation are the statements of handle_joy and of the handler it       *)
(* dispatches.  Axis values are scaled by 100 (axes[2] < -0.99 becomes     *)
(* a2 < -99).                                                              *)
(***************************************************************************)
EXTENDS Integers, Sequences, FiniteSets, TLC

\* ---------------------------------------------------------------- bounds
\* number of samples delivered in a run
MaxSamples == 3

\* number of advances of one mode index in a run of advances
MaxAdvance == 14

\* raw preset values decoded: -MaxRaw .. MaxRaw
MaxRaw == 30

\* The invocations of handle_joy that can run at once: the one handling a
\* sample and one more delivered while the first is still in its handler.
Threads == {1, 2}

\* ------------------------------------------------------- program constants
HINT_AUTO == 1
HINT_TROT == 2
HINT_SPEED_SELECT_TROT == 3
HINT_CRAWL == 4
HINT_SPEED_SELECT_CRAWL == 10
HINT_AMBLE == 5
HINT_SPEED_SELECT_AMBLE == 6

STAIRS_MODE_OFF == 1
STAIRS_MODE_ON == 2
STAIRS_MODE_AUTO == 3

\* class LocomotionHint(IntEnum): the values of its members
LocomotionHintValues ==
    { HINT_AUTO, HINT_TROT, HINT_SPEED_SELECT_TROT, HINT_CRAWL,
      HINT_SPEED_SELECT_CRAWL, HINT_AMBLE, HINT_SPEED_SELECT_AMBLE }

\* variant: the unknown value handed back as it came
LocomotionHintMissingPassThrough(v) == v

\* LocomotionHint._missing_(cls, value)
LocomotionHintMissing(v) == HINT_AUTO

\* LocomotionHint(v): the member with that value, else what _missing_ returns
LocomotionHint(v) ==
    IF v \in LocomotionHintValues THEN v ELSE LocomotionHintMissing(v)

\* class StairsMode(IntEnum): the values of its members
StairsModeValues == { STAIRS_MODE_OFF, STAIRS_MODE_ON, STAIRS_MODE_AUTO }

\* StairsMode._missing_(cls, value)
StairsModeMissing(v) == STAIRS_MODE_AUTO

\* StairsMode(v): the member with that value, else what _missing_ returns
StairsMode(v) == IF v \in StairsModeValues THEN v ELSE StairsModeMissing(v)

valid_locomotion_hints ==
    << HINT_AUTO, HINT_TROT, HINT_SPEED_SELECT_TROT, HINT_CRAWL,
       HINT_SPEED_SELECT_CRAWL, HINT_AMBLE, HINT_SPEED_SELECT_AMBLE >>

valid_stair_hints == << STAIRS_MODE_OFF, STAIRS_MODE_ON, STAIRS_MODE_AUTO >>

\* The joystick samples: axes 2, 5, 6 and 7 (times 100), with the values
\* on both sides of every threshold the code compares against.
Joy == [a2 : {-100, -99}, a5 : {-100, -90}, a6 : {-100, 0, 100}, a7 : {90, 100}]

NoJoy == [a2 |-> 0, a5 |-> 0, a6 |-> 0, a7 |-> 0]

\* variant: the comparison with the threshold made inclusive
EnableCondInclusive(m) == m.a2 <= -99

\* enable = joy_msg.axes[2] < -0.99
EnableCond(m) == m.a2 < -99

\* the four requests read from the sample when not paused
PowerCond(m) == m.a5 < -90
SitStandCond(m) == m.a7 > 90
LocomotionCond(m) == m.a6 > 90
StairsCond(m) == m.a6 < -90

NoToggle == [power |-> FALSE, sit_stand |-> FALSE,
             locomotion |-> FALSE, stairs |-> FALSE]

Toggles(m) == [power |-> PowerCond(m), sit_stand |-> SitStandCond(m),
               locomotion |-> LocomotionCond(m), stairs |-> StairsCond(m)]

Triggers == {"power", "sit_stand", "locomotion", "stairs"}

AnyToggle(g) == g.power \/ g.sit_stand \/ g.locomotion \/ g.stairs

CallNames == {"check_is_powered_on", "power_on", "safe_power_off",
              "movement_query_fn", "sit", "stand",
              "get_mobility_params", "set_mobility_params"}

VARIABLES
    pc,               \* position of each handle_joy invocation
    msg,              \* joy_msg of each invocation
    tog,              \* the toggle_* locals of each invocation
    q,                \* the boolean a handler read from the actuator
    tmp,              \* index value read by the increment statement
    hint,             \* locomotion_hint / stair_hint local of a cycle handler
    mp,               \* mobility_params local of a cycle handler
    resp,             \* status of the actuator response of a handler
    pause,            \* self.pause
    lock,             \* owner of self.lock, 0 when free
    locomotion_mode_idx,
    stair_mode_idx,
    mobility_params,  \* parameters held by the actuator interface
    ncalls,           \* calls recorded by the actuator interface and predicate
    authorized,       \* number of times movement_query_fn answered True
    nfired,           \* number of dispatches of each handler so far
    nadvance,         \* number of advances of each mode index so far
    ord,              \* ordinal of the advance an invocation has made
    held,             \* the trigger the operator keeps raised, or "none"
    iofailed,         \* some get/set_mobility_params call has raised
    start,            \* the mode indices the run started from
    raw,              \* a raw preset value given to the enum classes
    decoded,          \* the members the enum classes returned for it
    delivered         \* number of samples delivered so far

vars == << pc, msg, tog, q, tmp, hint, mp, resp, pause, lock,
           locomotion_mode_idx, stair_mode_idx, mobility_params, ncalls,
           authorized, nfired, nadvance, ord, held, iofailed, start, raw,
           decoded, delivered >>

fixed == << start, raw, decoded >>
extra == << iofailed, fixed >>

locals == << msg, tog, q, tmp, hint, mp, resp, ord >>
shared == << pause, lock, locomotion_mode_idx, stair_mode_idx,
             mobility_params, ncalls, authorized, nfired, nadvance, held,
             extra >>

NoParams == [locomotion_hint |-> 0, stair_hint |-> 0]

\* no raw value has been decoded
NoDecoded == [locomotion |-> 0, stairs |-> 0]

\* no invocation of handle_joy is running and none has run
NoInvocation ==
    /\ pc = [t \in Threads |-> "idle"]
    /\ msg = [t \in Threads |-> NoJoy]
    /\ tog = [t \in Threads |-> NoToggle]
    /\ q = [t \in Threads |-> FALSE]
    /\ tmp = [t \in Threads |-> 0]
    /\ hint = [t \in Threads |-> 0]
    /\ mp = [t \in Threads |-> NoParams]
    /\ resp = [t \in Threads |-> "none"]
    /\ pause = FALSE
    /\ lock = 0
    /\ ncalls = [c \in CallNames |-> 0]
    /\ authorized = 0
    /\ nfired = [g \in Triggers |-> 0]
    /\ nadvance = [locomotion |-> 0, stairs |-> 0]
    /\ ord = [t \in Threads |-> 0]
    /\ iofailed = FALSE
    /\ delivered = 0

\* TeleopFuncs.__init__, with no invocation of handle_joy running
Constructed ==
    /\ NoInvocation
    /\ locomotion_mode_idx = 0
    /\ stair_mode_idx = 0
    /\ mobility_params = NoParams
    /\ start = [locomotion |-> 0, stairs |-> 0]

\* no raw preset value is being decoded
NotDecoding == raw = 0 /\ decoded = NoDecoded

\* any sample may follow any other
Init == Constructed /\ held = "none" /\ NotDecoding

Called(c) == ncalls' = [ncalls EXCEPT ![c] = @ + 1]

\* An invocation returns: its locals go away.
Return(t) ==
    /\ pc' = [pc EXCEPT ![t] = "idle"]
    /\ msg' = [msg EXCEPT ![t] = NoJoy]
    /\ tog' = [tog EXCEPT ![t] = NoToggle]
    /\ q' = [q EXCEPT ![t] = FALSE]
    /\ tmp' = [tmp EXCEPT ![t] = 0]
    /\ hint' = [hint EXCEPT ![t] = 0]
    /\ mp' = [mp EXCEPT ![t] = NoParams]
    /\ resp' = [resp EXCEPT ![t] = "none"]
    /\ ord' = [ord EXCEPT ![t] = 0]

Goto(t, l) == pc' = [pc EXCEPT ![t] = l]

\* with self.lock: (entry)
Acquire(t, from, to) ==
    /\ pc[t] = from
    /\ lock = 0
    /\ lock' = t
    /\ Goto(t, to)
    /\ UNCHANGED << locals, pause, locomotion_mode_idx, stair_mode_idx,
                    mobility_params, ncalls, authorized, nfired, nadvance, held, extra,
                    delivered >>

\* with self.lock: self.pause = False   (body and exit)
ClearPause(t, from) ==
    /\ pc[t] = from
    /\ lock = t
    /\ pause' = FALSE
    /\ lock' = 0
    /\ Return(t)
    /\ UNCHANGED << locomotion_mode_idx, stair_mode_idx, mobility_params,
                    ncalls, authorized, nfired, nadvance, held, extra, delivered >>

\* time.sleep(...)
Sleep(t, from, to) ==
    /\ pc[t] = from
    /\ Goto(t, to)
    /\ UNCHANGED << locals, shared, delivered >>

\* ------------------------------------------------------------ handle_joy
\* a sample that keeps trigger g raised: enable and the trigger's axis condition
Holds(m, g) == EnableCond(m) /\ Toggles(m)[g]

\* The subscriber delivers a sample: handle_joy(joy_msg) is invoked.
Deliver(t, m) ==
    /\ pc[t] = "idle"
    /\ delivered < MaxSamples
    /\ held # "none" => Holds(m, held)
    /\ delivered' = delivered + 1
    /\ msg' = [msg EXCEPT ![t] = m]
    /\ Goto(t, "enter")
    /\ UNCHANGED << tog, q, tmp, hint, mp, resp, ord, shared >>

\* enable = joy_msg.axes[2] < -0.99; if enable: ...
CheckEnable(t) ==
    /\ pc[t] = "enter"
    /\ IF EnableCond(msg[t])
       THEN /\ Goto(t, "print_acq")
            /\ UNCHANGED locals
       ELSE Return(t)
    /\ UNCHANGED << shared, delivered >>

PrintAcquire(t) == Acquire(t, "print_acq", "print_rel")

\* print("Enabled:", self.pause) and exit of the with block
PrintRelease(t) ==
    /\ pc[t] = "print_rel"
    /\ lock = t
    /\ lock' = 0
    /\ Goto(t, "gate_acq")
    /\ UNCHANGED << locals, pause, locomotion_mode_idx, stair_mode_idx,
                    mobility_params, ncalls, authorized, nfired, nadvance, held, extra,
                    delivered >>

GateAcquire(t) == Acquire(t, "gate_acq", "gate")

\* if not self.pause: toggle_* = ...;  self.pause = (toggle_power or ...)
GateToggles(p, m) == IF ~p THEN Toggles(m) ELSE NoToggle

\* variant: the handlers are called inside the with block
GateKeepsLock(t) ==
    /\ pc[t] = "gate"
    /\ lock = t
    /\ tog' = [tog EXCEPT ![t] = GateToggles(pause, msg[t])]
    /\ pause' = AnyToggle(GateToggles(pause, msg[t]))
    /\ lock' = t
    /\ Goto(t, "dispatch")
    /\ UNCHANGED << msg, q, tmp, hint, mp, resp, ord, locomotion_mode_idx,
                    stair_mode_idx, mobility_params, ncalls, authorized,
                    nfired, nadvance, held, extra, delivered >>

Gate(t) ==
    /\ pc[t] = "gate"
    /\ lock = t
    /\ tog' = [tog EXCEPT ![t] = GateToggles(pause, msg[t])]
    /\ pause' = AnyToggle(GateToggles(pause, msg[t]))
    /\ lock' = 0
    /\ Goto(t, "dispatch")
    /\ UNCHANGED << msg, q, tmp, hint, mp, resp, ord, locomotion_mode_idx,
                    stair_mode_idx, mobility_params, ncalls, authorized,
                    nfired, nadvance, held, extra, delivered >>

\* variant: the stairs branch tested first
DispatchTargetStairsFirst(g) ==
    IF g.stairs THEN "st_read"
    ELSE IF g.power THEN "pw_query"
    ELSE IF g.sit_stand THEN "ss_auth"
    ELSE IF g.locomotion THEN "lm_read"
    ELSE "idle"

\* variant: the sit/stand branch tested before the power branch
DispatchTargetSitFirst(g) ==
    IF g.sit_stand THEN "ss_auth"
    ELSE IF g.power THEN "pw_query"
    ELSE IF g.locomotion THEN "lm_read"
    ELSE IF g.stairs THEN "st_read"
    ELSE "idle"

\* if toggle_power: ... elif toggle_sit_stand: ... elif ... elif ...
DispatchTarget(g) ==
    IF g.power THEN "pw_query"
    ELSE IF g.sit_stand THEN "ss_auth"
    ELSE IF g.locomotion THEN "lm_read"
    ELSE IF g.stairs THEN "st_read"
    ELSE "idle"

\* the trigger whose handler a dispatch target starts
TriggerOf(l) ==
    IF l = "pw_query" THEN "power"
    ELSE IF l = "ss_auth" THEN "sit_stand"
    ELSE IF l = "lm_read" THEN "locomotion"
    ELSE "stairs"

Dispatch(t) ==
    /\ pc[t] = "dispatch"
    /\ LET l == DispatchTarget(tog[t]) IN
       IF l = "idle"
       THEN /\ Return(t)
            /\ UNCHANGED nfired
       ELSE /\ Goto(t, l)
            /\ nfired' = [nfired EXCEPT ![TriggerOf(l)] = @ + 1]
            /\ UNCHANGED locals
    /\ UNCHANGED << pause, lock, locomotion_mode_idx, stair_mode_idx,
                    mobility_params, ncalls, authorized, nadvance, held, extra,
                    delivered >>

\* ---------------------------------------------------- _handle_toggle_power
\* if self.spot_wrapper.check_is_powered_on():
PowerQuery(t) ==
    /\ pc[t] = "pw_query"
    /\ \E on \in BOOLEAN : q' = [q EXCEPT ![t] = on]
    /\ Called("check_is_powered_on")
    /\ Goto(t, "pw_act")
    /\ UNCHANGED << msg, tog, tmp, hint, mp, resp, ord, pause, lock,
                    locomotion_mode_idx, stair_mode_idx, mobility_params,
                    authorized, nfired, nadvance, held, extra, delivered >>

\* variant: the two branches of the power toggle exchanged
PowerRequestInverted(on) == IF on THEN "power_on" ELSE "safe_power_off"

\* resp = safe_power_off()  /  resp = power_on()
PowerRequest(on) == IF on THEN "safe_power_off" ELSE "power_on"

\* variant: an error status ends the invocation on the spot
PowerActPropagates(t) ==
    /\ pc[t] = "pw_act"
    /\ Called(PowerRequest(q[t]))
    /\ \E r \in {"ok", "err"} :
          IF r = "ok"
          THEN /\ resp' = [resp EXCEPT ![t] = r]
               /\ Goto(t, "pw_sleep")
               /\ UNCHANGED << msg, tog, q, tmp, hint, mp, ord >>
          ELSE Return(t)
    /\ UNCHANGED << pause, lock,
                    locomotion_mode_idx, stair_mode_idx, mobility_params,
                    authorized, nfired, nadvance, held, extra, delivered >>

PowerAct(t) ==
    /\ pc[t] = "pw_act"
    /\ Called(PowerRequest(q[t]))
    /\ \E r \in {"ok", "err"} : resp' = [resp EXCEPT ![t] = r]
    /\ Goto(t, "pw_sleep")
    /\ UNCHANGED << msg, tog, q, tmp, hint, mp, ord, pause, lock,
                    locomotion_mode_idx, stair_mode_idx, mobility_params,
                    authorized, nfired, nadvance, held, extra, delivered >>

PowerSleep(t) == Sleep(t, "pw_sleep", "pw_acq")
PowerAcquire(t) == Acquire(t, "pw_acq", "pw_clear")
PowerClear(t) == ClearPause(t, "pw_clear")

\* ------------------------------------------------ _handle_toggle_sit_stand
\* variant: the denial does not return, the handler carries on
SitStandAuthNoAbort(t) ==
    /\ pc[t] = "ss_auth"
    /\ Called("movement_query_fn")
    /\ \E allowed \in BOOLEAN :
          authorized' = IF allowed THEN authorized + 1 ELSE authorized
    /\ Goto(t, "ss_query")
    /\ UNCHANGED << locals, pause, lock, locomotion_mode_idx, stair_mode_idx,
                    mobility_params, nfired, nadvance, held, extra,
                    delivered >>

\* if not self.movement_query_fn(autonomous_command=False): return "..."
SitStandAuth(t) ==
    /\ pc[t] = "ss_auth"
    /\ Called("movement_query_fn")
    /\ \E allowed \in BOOLEAN :
          IF allowed
          THEN /\ authorized' = authorized + 1
               /\ Goto(t, "ss_query")
               /\ UNCHANGED locals
          ELSE /\ UNCHANGED authorized
               /\ Return(t)
    /\ UNCHANGED << pause, lock, locomotion_mode_idx, stair_mode_idx,
                    mobility_params, nfired, nadvance, held, extra,
                    delivered >>

\* if self.spot_wrapper.is_sitting:
SitStandQuery(t) ==
    /\ pc[t] = "ss_query"
    /\ \E sitting \in BOOLEAN : q' = [q EXCEPT ![t] = sitting]
    /\ Goto(t, "ss_act")
    /\ UNCHANGED << msg, tog, tmp, hint, mp, resp, ord, shared, delivered >>

\* variant: the sitting state ignored
PostureRequestAlwaysSit(sitting) == "sit"

\* resp = stand()  /  resp = sit()
PostureRequest(sitting) == IF sitting THEN "stand" ELSE "sit"

SitStandAct(t) ==
    /\ pc[t] = "ss_act"
    /\ Called(PostureRequest(q[t]))
    /\ \E r \in {"ok", "err"} : resp' = [resp EXCEPT ![t] = r]
    /\ Goto(t, "ss_sleep")
    /\ UNCHANGED << msg, tog, q, tmp, hint, mp, ord, pause, lock,
                    locomotion_mode_idx, stair_mode_idx, mobility_params,
                    authorized, nfired, nadvance, held, extra, delivered >>

SitStandSleep(t) == Sleep(t, "ss_sleep", "ss_acq")
SitStandAcquire(t) == Acquire(t, "ss_acq", "ss_clear")
SitStandClear(t) == ClearPause(t, "ss_clear")

\* ------------------------------------------ _handle_toggle_locomotion_mode
\* variant: the index stops at the last entry
AdvanceSaturating(i, n) == IF i + 1 < n THEN i + 1 ELSE i

\* variant: the index is never reduced
AdvanceNoWrap(i, n) == i + 1

\* index = (index + 1) % len(entries)
Advance(i, n) == (i + 1) % n

\* the right-hand side reads self.locomotion_mode_idx ...
LocomotionRead(t) ==
    /\ pc[t] = "lm_read"
    /\ tmp' = [tmp EXCEPT ![t] = locomotion_mode_idx]
    /\ Goto(t, "lm_write")
    /\ UNCHANGED << msg, tog, q, hint, mp, resp, ord, shared, delivered >>

\* ... and the assignment stores the advanced value
LocomotionWrite(t) ==
    /\ pc[t] = "lm_write"
    /\ locomotion_mode_idx' = Advance(tmp[t], Len(valid_locomotion_hints))
    /\ nadvance' = [nadvance EXCEPT !.locomotion = @ + 1]
    /\ ord' = [ord EXCEPT ![t] = nadvance.locomotion + 1]
    /\ Goto(t, "lm_pick")
    /\ UNCHANGED << msg, tog, q, tmp, hint, mp, resp, pause, lock,
                    stair_mode_idx, mobility_params, ncalls, authorized,
                    nfired, held, extra, delivered >>

\* locomotion_hint, msg = self.valid_locomotion_hints[self.locomotion_mode_idx]
LocomotionPick(t) ==
    /\ pc[t] = "lm_pick"
    /\ hint' = [hint EXCEPT
                   ![t] = valid_locomotion_hints[locomotion_mode_idx + 1]]
    /\ Goto(t, "lm_get")
    /\ UNCHANGED << msg, tog, q, tmp, mp, resp, ord, shared, delivered >>

\* mobility_params = self.spot_wrapper.get_mobility_params()   (may raise)
GetParams(t, from, to, failed) ==
    /\ pc[t] = from
    /\ Called("get_mobility_params")
    /\ \E ok \in BOOLEAN :
          IF ok
          THEN /\ mp' = [mp EXCEPT ![t] = mobility_params]
               /\ UNCHANGED << resp, iofailed >>
               /\ Goto(t, to)
          ELSE /\ resp' = [resp EXCEPT ![t] = "err"]
               /\ iofailed' = TRUE
               /\ UNCHANGED mp
               /\ Goto(t, failed)
    /\ UNCHANGED << msg, tog, q, tmp, hint, ord, pause, lock,
                    locomotion_mode_idx, stair_mode_idx, mobility_params,
                    authorized, nfired, nadvance, held, fixed, delivered >>

\* mobility_params.<field> = hint; set_mobility_params(mobility_params)
SetParams(t, from, to, field) ==
    /\ pc[t] = from
    /\ Called("set_mobility_params")
    /\ mp' = [mp EXCEPT ![t][field] = hint[t]]
    /\ \E ok \in BOOLEAN :
          IF ok
          THEN /\ mobility_params' = [mp[t] EXCEPT ![field] = hint[t]]
               /\ resp' = [resp EXCEPT ![t] = "ok"]
               /\ UNCHANGED iofailed
          ELSE /\ UNCHANGED mobility_params
               /\ resp' = [resp EXCEPT ![t] = "err"]
               /\ iofailed' = TRUE
    /\ Goto(t, to)
    /\ UNCHANGED << msg, tog, q, tmp, hint, ord, pause, lock,
                    locomotion_mode_idx, stair_mode_idx, authorized, nfired,
                    nadvance, held, fixed, delivered >>

\* variant: a failed read restores the index the handler started from
LocomotionGetRollback(t) ==
    /\ pc[t] = "lm_get"
    /\ Called("get_mobility_params")
    /\ \E ok \in BOOLEAN :
          IF ok
          THEN /\ mp' = [mp EXCEPT ![t] = mobility_params]
               /\ UNCHANGED << resp, iofailed, locomotion_mode_idx >>
               /\ Goto(t, "lm_set")
          ELSE /\ resp' = [resp EXCEPT ![t] = "err"]
               /\ iofailed' = TRUE
               /\ locomotion_mode_idx' = tmp[t]
               /\ UNCHANGED mp
               /\ Goto(t, "lm_sleep")
    /\ UNCHANGED << msg, tog, q, tmp, hint, ord, pause, lock,
                    stair_mode_idx, mobility_params,
                    authorized, nfired, nadvance, held, fixed, delivered >>

LocomotionGet(t) == GetParams(t, "lm_get", "lm_set", "lm_sleep")
LocomotionSet(t) == SetParams(t, "lm_set", "lm_sleep", "locomotion_hint")
LocomotionSleep(t) == Sleep(t, "lm_sleep", "lm_acq")
LocomotionAcquire(t) == Acquire(t, "lm_acq", "lm_clear")
LocomotionClear(t) == ClearPause(t, "lm_clear")

\* ---------------------------------------------- _handle_toggle_stairs_mode
StairsRead(t) ==
    /\ pc[t] = "st_read"
    /\ tmp' = [tmp EXCEPT ![t] = stair_mode_idx]
    /\ Goto(t, "st_write")
    /\ UNCHANGED << msg, tog, q, hint, mp, resp, ord, shared, delivered >>

StairsWrite(t) ==
    /\ pc[t] = "st_write"
    /\ stair_mode_idx' = Advance(tmp[t], Len(valid_stair_hints))
    /\ nadvance' = [nadvance EXCEPT !.stairs = @ + 1]
    /\ ord' = [ord EXCEPT ![t] = nadvance.stairs + 1]
    /\ Goto(t, "st_pick")
    /\ UNCHANGED << msg, tog, q, tmp, hint, mp, resp, pause, lock,
                    locomotion_mode_idx, mobility_params, ncalls, authorized,
                    nfired, held, extra, delivered >>

\* stair_hint, msg = self.valid_stair_hints[self.stair_mode_idx]
StairsPick(t) ==
    /\ pc[t] = "st_pick"
    /\ hint' = [hint EXCEPT ![t] = valid_stair_hints[stair_mode_idx + 1]]
    /\ Goto(t, "st_get")
    /\ UNCHANGED << msg, tog, q, tmp, mp, resp, ord, shared, delivered >>

StairsGet(t) == GetParams(t, "st_get", "st_set", "st_sleep")
StairsSet(t) == SetParams(t, "st_set", "st_sleep", "stair_hint")
StairsSleep(t) == Sleep(t, "st_sleep", "st_acq")
StairsAcquire(t) == Acquire(t, "st_acq", "st_clear")
StairsClear(t) == ClearPause(t, "st_clear")

HandleJoy(t) ==
    \/ \E m \in Joy : Deliver(t, m)
    \/ CheckEnable(t)
    \/ PrintAcquire(t)
    \/ PrintRelease(t)
    \/ GateAcquire(t)
    \/ Gate(t)
    \/ Dispatch(t)

HandleTogglePower(t) ==
    \/ PowerQuery(t)
    \/ PowerAct(t)
    \/ PowerSleep(t)
    \/ PowerAcquire(t)
    \/ PowerClear(t)

HandleToggleSitStand(t) ==
    \/ SitStandAuth(t)
    \/ SitStandQuery(t)
    \/ SitStandAct(t)
    \/ SitStandSleep(t)
    \/ SitStandAcquire(t)
    \/ SitStandClear(t)

HandleToggleLocomotionMode(t) ==
    \/ LocomotionRead(t)
    \/ LocomotionWrite(t)
    \/ LocomotionPick(t)
    \/ LocomotionGet(t)
    \/ LocomotionSet(t)
    \/ LocomotionSleep(t)
    \/ LocomotionAcquire(t)
    \/ LocomotionClear(t)

HandleToggleStairsMode(t) ==
    \/ StairsRead(t)
    \/ StairsWrite(t)
    \/ StairsPick(t)
    \/ StairsGet(t)
    \/ StairsSet(t)
    \/ StairsSleep(t)
    \/ StairsAcquire(t)
    \/ StairsClear(t)

Next ==
    \E t \in Threads :
        \/ HandleJoy(t)
        \/ HandleTogglePower(t)
        \/ HandleToggleSitStand(t)
        \/ HandleToggleLocomotionMode(t)
        \/ HandleToggleStairsMode(t)

Spec == Init /\ [][Next]_vars

\* The operator keeps one trigger raised for the whole run: every sample
\* delivered has the enable condition and that trigger's condition true.
InitHold == Constructed /\ held \in Triggers /\ NotDecoding

SpecHold == InitHold /\ [][Next]_vars

\* The same program after six locomotion and two stairs firings, one at a
\* time and all written through: both indices on the last entry of their list.
InitWrap ==
    /\ NoInvocation
    /\ locomotion_mode_idx = Len(valid_locomotion_hints) - 1
    /\ stair_mode_idx = Len(valid_stair_hints) - 1
    /\ mobility_params =
          [locomotion_hint |-> valid_locomotion_hints[Len(valid_locomotion_hints)],
           stair_hint |-> valid_stair_hints[Len(valid_stair_hints)]]
    /\ start = [locomotion |-> locomotion_mode_idx, stairs |-> stair_mode_idx]
    /\ held = "none"
    /\ NotDecoding

SpecWrap == InitWrap /\ [][Next]_vars

\* ---------------------------------------------------------- advance alone
\* The advance statement of each cycle handler applied repeatedly, from any
\* valid starting index.
InitAdvance ==
    /\ NoInvocation
    /\ start \in [locomotion : 0..(Len(valid_locomotion_hints) - 1),
                  stairs : 0..(Len(valid_stair_hints) - 1)]
    /\ locomotion_mode_idx = start.locomotion
    /\ stair_mode_idx = start.stairs
    /\ mobility_params = NoParams
    /\ held = "none"
    /\ NotDecoding

\* self.locomotion_mode_idx = (self.locomotion_mode_idx + 1) % len(...)
AdvanceLocomotion ==
    /\ nadvance.locomotion < MaxAdvance
    /\ locomotion_mode_idx' =
          Advance(locomotion_mode_idx, Len(valid_locomotion_hints))
    /\ nadvance' = [nadvance EXCEPT !.locomotion = @ + 1]
    /\ UNCHANGED << pc, locals, pause, lock, stair_mode_idx, mobility_params,
                    ncalls, authorized, nfired, held, extra, delivered >>

\* self.stair_mode_idx = (self.stair_mode_idx + 1) % len(...)
AdvanceStairs ==
    /\ nadvance.stairs < MaxAdvance
    /\ stair_mode_idx' = Advance(stair_mode_idx, Len(valid_stair_hints))
    /\ nadvance' = [nadvance EXCEPT !.stairs = @ + 1]
    /\ UNCHANGED << pc, locals, pause, lock, locomotion_mode_idx,
                    mobility_params, ncalls, authorized, nfired, held, extra,
                    delivered >>

NextAdvance == AdvanceLocomotion \/ AdvanceStairs

SpecAdvance == InitAdvance /\ [][NextAdvance]_vars

\* ------------------------------------------------------- decoding presets
\* A raw integer is given to the two enum classes.
InitDecode ==
    /\ Constructed
    /\ held = "none"
    /\ raw \in (0 - MaxRaw)..MaxRaw
    /\ decoded = NoDecoded

DecodeLocomotion ==
    /\ decoded.locomotion = 0
    /\ decoded' = [decoded EXCEPT !.locomotion = LocomotionHint(raw)]
    /\ UNCHANGED << pc, locals, pause, lock, locomotion_mode_idx,
                    stair_mode_idx, mobility_params, ncalls, authorized,
                    nfired, nadvance, held, iofailed, start, raw, delivered >>

DecodeStairs ==
    /\ decoded.stairs = 0
    /\ decoded' = [decoded EXCEPT !.stairs = StairsMode(raw)]
    /\ UNCHANGED << pc, locals, pause, lock, locomotion_mode_idx,
                    stair_mode_idx, mobility_params, ncalls, authorized,
                    nfired, nadvance, held, iofailed, start, raw, delivered >>

NextDecode == DecodeLocomotion \/ DecodeStairs

SpecDecode == InitDecode /\ [][NextDecode]_vars

\* ------------------------------------------------------------- properties
PowerStates == {"pw_query", "pw_act", "pw_sleep", "pw_acq", "pw_clear"}
SitStandStates == {"ss_auth", "ss_query", "ss_act", "ss_sleep", "ss_acq",
                   "ss_clear"}
LocomotionStates == {"lm_read", "lm_write", "lm_pick", "lm_get", "lm_set",
                     "lm_sleep", "lm_acq", "lm_clear"}
StairsStates == {"st_read", "st_write", "st_pick", "st_get", "st_set",
                 "st_sleep", "st_acq", "st_clear"}

\* the handler a position belongs to, "none" outside the handlers
HandlerOf(l) ==
    IF l \in PowerStates THEN "power"
    ELSE IF l \in SitStandStates THEN "sit_stand"
    ELSE IF l \in LocomotionStates THEN "locomotion"
    ELSE IF l \in StairsStates THEN "stairs"
    ELSE "none"

\* the invocation has fired a trigger and its handler has not finished
InFlight(t) ==
    \/ HandlerOf(pc[t]) # "none"
    \/ pc[t] = "dispatch" /\ AnyToggle(tog[t])

\* the invocation takes this step
Steps(t) == pc'[t] # pc[t]

\* C1: once a trigger has fired, no handle_joy invocation fires a trigger
\* until the handler of the first has cleared busy: an invocation whose gate
\* raises a toggle does so only while no other fired invocation is in flight.
C1_NoFireUntilCleared ==
    [][\A t \in Threads :
          (pc[t] = "gate" /\ Steps(t) /\ AnyToggle(tog'[t]))
             => \A u \in Threads \ {t} : ~InFlight(u)]_vars

\* C2: while the enable condition and one trigger's condition stay true over
\* a run of consecutive samples, that trigger fires at most once in the run.
\* Under SpecHold every sample of the run keeps the trigger `held` raised.
C2_OncePerHold == held # "none" => nfired[held] <= 1

\* the highest-priority trigger whose condition the sample raises
HighestRaised(m) ==
    IF m.a5 < -90 THEN "power"
    ELSE IF m.a7 > 90 THEN "sit_stand"
    ELSE IF m.a6 > 90 THEN "locomotion"
    ELSE IF m.a6 < -90 THEN "stairs"
    ELSE "none"

\* C3: an invocation dispatches at most one handler, and the handler it
\* dispatches is that of the highest-priority trigger raised in its sample:
\* a handler is entered only from the dispatch step and only that handler,
\* and a handler is left only by returning from handle_joy.
C3_OneHandlerByPriority ==
    [][\A t \in Threads :
          /\ (HandlerOf(pc'[t]) # "none" /\ HandlerOf(pc'[t]) # HandlerOf(pc[t]))
                => /\ pc[t] = "dispatch"
                   /\ HandlerOf(pc'[t]) = HighestRaised(msg[t])
          /\ (HandlerOf(pc[t]) # "none" /\ HandlerOf(pc'[t]) # HandlerOf(pc[t]))
                => pc'[t] = "idle"]_vars

\* power is dispatched for a sample that also raises sit/stand and stairs
C3_Witness ==
    \E t \in Threads :
        /\ pc[t] = "pw_query"
        /\ msg[t].a7 > 90
        /\ msg[t].a6 < -90

\* C4: an invocation on a sample with axes[2] not below -0.99 returns at
\* once: no trigger fires, no actuator or predicate call is made, and busy,
\* the two mode indices and the mobility parameters stay as they were.
C4_DisabledSampleNoEffect ==
    [][\A t \in Threads :
          (pc[t] = "enter" /\ msg[t].a2 >= -99 /\ Steps(t))
             => /\ pc'[t] = "idle"
                /\ UNCHANGED << pause, locomotion_mode_idx, stair_mode_idx,
                                mobility_params, ncalls, nfired, authorized,
                                lock >>]_vars

\* a disabled sample raising power, sit/stand and locomotion is being
\* handled while busy is set by another invocation
C4_Witness ==
    \E t \in Threads :
        /\ pc[t] = "enter"
        /\ msg[t].a2 >= -99
        /\ msg[t].a5 < -90 /\ msg[t].a7 > 90 /\ msg[t].a6 > 90
        /\ pause
        /\ \E u \in Threads \ {t} : InFlight(u)

\* C5: sit() and stand() are called once per authorized SitStandToggle
\* dispatch and never for a denied one: their calls, plus the authorized
\* dispatches that have not reached the call yet, equal the number of times
\* the predicate answered true.
C5_PostureCallsAuthorized ==
    /\ ncalls["sit"] + ncalls["stand"]
          + Cardinality({t \in Threads : pc[t] \in {"ss_query", "ss_act"}})
       = authorized
    /\ authorized <= ncalls["movement_query_fn"]

\* one dispatch was denied, another authorized and its request made
C5_Witness ==
    /\ authorized >= 1
    /\ ncalls["movement_query_fn"] > authorized
    /\ ncalls["sit"] + ncalls["stand"] = authorized
    /\ \A t \in Threads : pc[t] = "idle"

\* C6: busy is true only while a dispatched action is in progress.
C6_BusyOnlyInFlight == pause => \E t \in Threads : InFlight(t)

\* C7: every firing is followed by busy being false as a result of the
\* dispatcher finishing: when the invocation that fired returns, busy is
\* false, whatever the outcome of the action.
C7_BusyClearedOnFinish ==
    [][\A t \in Threads :
          (InFlight(t) /\ pc'[t] = "idle") => ~pause']_vars

\* C8: a PowerToggle dispatch makes exactly one power request, chosen by the
\* powered-on state it queried: the step after the query makes the request
\* (safe_power_off if on, power_on if off) and no other step of the handler
\* makes one.
C8_OnePowerRequest ==
    [][\A t \in Threads :
          (pc[t] \in PowerStates /\ Steps(t))
             => /\ pc[t] = "pw_query" => pc'[t] = "pw_act"
                /\ pc[t] = "pw_act" => pc'[t] = "pw_sleep"
                /\ ncalls'["power_on"] = ncalls["power_on"]
                      + (IF pc[t] = "pw_act" /\ ~q[t] THEN 1 ELSE 0)
                /\ ncalls'["safe_power_off"] = ncalls["safe_power_off"]
                      + (IF pc[t] = "pw_act" /\ q[t] THEN 1 ELSE 0)]_vars

\* both requests have been made, each by a dispatch that has passed its call
C8_Witness ==
    /\ ncalls["power_on"] >= 1
    /\ ncalls["safe_power_off"] >= 1
    /\ \E t \in Threads : pc[t] = "pw_sleep"

\* C9: an authorized SitStandToggle dispatch makes exactly one posture
\* request, chosen by the sitting state it read: stand() if sitting, sit()
\* otherwise, and no other step of the handler makes one.
C9_OnePostureRequest ==
    [][\A t \in Threads :
          (pc[t] \in SitStandStates /\ Steps(t))
             => /\ pc[t] = "ss_query" => pc'[t] = "ss_act"
                /\ pc[t] = "ss_act" => pc'[t] = "ss_sleep"
                /\ ncalls'["stand"] = ncalls["stand"]
                      + (IF pc[t] = "ss_act" /\ q[t] THEN 1 ELSE 0)
                /\ ncalls'["sit"] = ncalls["sit"]
                      + (IF pc[t] = "ss_act" /\ ~q[t] THEN 1 ELSE 0)]_vars

\* both requests have been made, each by a dispatch that has passed its call
C9_Witness ==
    /\ ncalls["sit"] >= 1
    /\ ncalls["stand"] >= 1
    /\ \E t \in Threads : pc[t] = "ss_sleep"

\* C10: starting from index 0, the k-th firing of a cycle trigger (the k-th
\* to advance the index) that gets its read and write through writes
\* entries[k mod n] of its own list into its hint field.
C10_KthFiringWritesKthEntry ==
    \A t \in Threads :
        /\ (pc[t] \in {"lm_sleep", "lm_acq", "lm_clear"} /\ resp[t] = "ok")
              => mp[t].locomotion_hint =
                    valid_locomotion_hints[(ord[t] % Len(valid_locomotion_hints)) + 1]
        /\ (pc[t] \in {"st_sleep", "st_acq", "st_clear"} /\ resp[t] = "ok")
              => mp[t].stair_hint =
                    valid_stair_hints[(ord[t] % Len(valid_stair_hints)) + 1]

\* an enabled sample that raises both the power and the stairs condition
PowerAndStairs(m) == m.a2 < -99 /\ m.a5 < -90 /\ m.a6 < -90

\* C11: a trigger that loses arbitration is neither acted on nor remembered:
\* no step of an invocation whose sample raises power and stairs together
\* changes the stairs index or the stairs hint or enters the stairs handler;
\* the stairs handler is entered only by an invocation whose own sample
\* raises stairs (and not power), with its toggle set at a gate that found
\* busy false.
C11_LoserNotActedOn ==
    [][\A t \in Threads :
          Steps(t) =>
             /\ (pc[t] # "idle" /\ PowerAndStairs(msg[t]))
                   => /\ stair_mode_idx' = stair_mode_idx
                      /\ mobility_params'.stair_hint = mobility_params.stair_hint
                      /\ HandlerOf(pc'[t]) # "stairs"
             /\ (HandlerOf(pc'[t]) = "stairs" /\ HandlerOf(pc[t]) # "stairs")
                   => /\ pc[t] = "dispatch"
                      /\ tog[t].stairs
                      /\ msg[t].a6 < -90
                      /\ msg[t].a5 >= -90
             /\ (pc[t] = "gate" /\ tog'[t].stairs)
                   => /\ ~pause
                      /\ msg[t].a6 < -90]_vars

\* power was dispatched for a sample that also raised stairs, its handler
\* is about to finish, and the stairs cycle has not moved
C11_Witness ==
    \E t \in Threads :
        /\ pc[t] = "pw_clear"
        /\ PowerAndStairs(msg[t])
        /\ nfired["stairs"] = 0
        /\ stair_mode_idx = 0
        /\ mobility_params.stair_hint = 0

\* C12: a handler that advanced a mode index never changes it again: the
\* advancing step stores (index read + 1) modulo the list length, and every
\* later step of the handler, the failing get_mobility_params or
\* set_mobility_params and the steps after it included, leaves the index as it
\* is (no rollback).
AfterLocomotionAdvance == { "lm_pick", "lm_get", "lm_set", "lm_sleep", "lm_acq", "lm_clear" }

AfterStairsAdvance == { "st_pick", "st_get", "st_set", "st_sleep", "st_acq", "st_clear" }

C12_IndexNotRolledBack ==
    [][\A t \in Threads :
          Steps(t) =>
             /\ pc[t] = "lm_write" => locomotion_mode_idx' = (tmp[t] + 1) % 7
             /\ pc[t] = "st_write" => stair_mode_idx' = (tmp[t] + 1) % 3
             /\ pc[t] \in AfterLocomotionAdvance
                   => locomotion_mode_idx' = locomotion_mode_idx
             /\ pc[t] \in AfterStairsAdvance
                   => stair_mode_idx' = stair_mode_idx]_vars

\* a locomotion handler has finished after its read of the parameters
\* failed, and the index still holds the advanced value
C12_Witness ==
    /\ \A t \in Threads : pc[t] = "idle"
    /\ nfired["locomotion"] = 1
    /\ ncalls["get_mobility_params"] = 1
    /\ ncalls["set_mobility_params"] = 0
    /\ iofailed
    /\ locomotion_mode_idx = 1

\* C13: an actuator failure never diverts a handler or the gate. The step
\* that records an error status or a failed parameter read or write moves the
\* handler on to its settle delay; from there the handler only sleeps, takes
\* the lock and clears busy as it returns; and a sample evaluated while busy
\* is false raises exactly the triggers its axes raise, whatever failed
\* before, and its invocation then enters a handler.
SleepStates == { "pw_sleep", "ss_sleep", "lm_sleep", "st_sleep" }

AcquireStates == { "pw_acq", "ss_acq", "lm_acq", "st_acq" }

ClearStates == { "pw_clear", "ss_clear", "lm_clear", "st_clear" }

C13_FailureNeverHalts ==
    [][\A t \in Threads :
          Steps(t) =>
             /\ pc[t] \in { "pw_act", "ss_act", "lm_set", "st_set" }
                   => pc'[t] \in SleepStates /\ resp'[t] \in { "ok", "err" }
             /\ pc[t] \in { "lm_get", "st_get" }
                   => \/ pc'[t] \in SleepStates /\ resp'[t] = "err"
                      \/ pc'[t] \in { "lm_set", "st_set" }
             /\ pc[t] \in SleepStates
                   => pc'[t] \in AcquireStates /\ resp'[t] = resp[t]
             /\ pc[t] \in AcquireStates
                   => pc'[t] \in ClearStates /\ resp'[t] = resp[t]
             /\ pc[t] \in ClearStates => pc'[t] = "idle" /\ ~pause'
             /\ (pc[t] = "gate" /\ ~pause)
                   => /\ tog'[t].power = (msg[t].a5 < -90)
                      /\ tog'[t].sit_stand = (msg[t].a7 > 90)
                      /\ tog'[t].locomotion = (msg[t].a6 > 90)
                      /\ tog'[t].stairs = (msg[t].a6 < -90)
             /\ (pc[t] = "dispatch" /\ AnyToggle(tog[t]))
                   => HandlerOf(pc'[t]) # "none"]_vars

\* two samples: the first fired the locomotion cycle, whose parameter read
\* failed and whose handler has returned; the second has fired the power
\* toggle
C13_Witness ==
    \E t \in Threads :
       /\ pc[t] = "pw_query"
       /\ \A u \in Threads \ {t} : pc[u] = "idle"
       /\ delivered = 2
       /\ iofailed
       /\ nfired["locomotion"] = 1
       /\ nfired["power"] = 1
       /\ ncalls["set_mobility_params"] = 0

\* C14: from any starting index, after N applications of the advance step
\* the index is back on its starting value exactly when N is a multiple of
\* the list length (7 for locomotion, 3 for stairs); in particular fewer
\* than that many advances never return to the starting entry.
C14_ReturnsAtMultiples ==
    /\ (locomotion_mode_idx = start.locomotion)
           <=> (nadvance.locomotion % 7 = 0)
    /\ (stair_mode_idx = start.stairs) <=> (nadvance.stairs % 3 = 0)
    /\ (valid_locomotion_hints[locomotion_mode_idx + 1]
            = valid_locomotion_hints[start.locomotion + 1])
           <=> (nadvance.locomotion % 7 = 0)
    /\ (valid_stair_hints[stair_mode_idx + 1]
            = valid_stair_hints[start.stairs + 1])
           <=> (nadvance.stairs % 3 = 0)

\* both cycles have gone round twice from a starting index inside the list
C14_Witness ==
    /\ start.locomotion = 4
    /\ start.stairs = 1
    /\ nadvance.locomotion = 14
    /\ nadvance.stairs = 6
    /\ locomotion_mode_idx = 4
    /\ stair_mode_idx = 1

\* C15: in every reachable state, under any interleaving of samples and
\* handler steps, locomotion_mode_idx is in 0..6 and stair_mode_idx is in
\* 0..2, so each is a valid index into its list.
C15_IndicesInRange ==
    /\ locomotion_mode_idx \in 0..6
    /\ stair_mode_idx \in 0..2
    /\ locomotion_mode_idx + 1 \in DOMAIN valid_locomotion_hints
    /\ stair_mode_idx + 1 \in DOMAIN valid_stair_hints

\* both indices were on their last entry and both cycles have fired once:
\* each index has wrapped round to the first entry
C15_Witness ==
    /\ start.locomotion = 6
    /\ start.stairs = 2
    /\ nadvance.locomotion = 1
    /\ nadvance.stairs = 1
    /\ locomotion_mode_idx = 0
    /\ stair_mode_idx = 0

\* C16: decoding a raw preset never yields an out-of-range value: a decoded
\* locomotion hint is the raw value when that is one of 1, 2, 3, 4, 5, 6, 10
\* and HINT_AUTO (1) otherwise; a decoded stairs mode is the raw value when
\* that is one of 1, 2, 3 and STAIRS_MODE_AUTO (3) otherwise.
C16_DecodeInRange ==
    /\ decoded.locomotion # 0 =>
          /\ decoded.locomotion \in { 1, 2, 3, 4, 5, 6, 10 }
          /\ decoded.locomotion = IF raw \in { 1, 2, 3, 4, 5, 6, 10 } THEN raw ELSE 1
    /\ decoded.stairs # 0 =>
          /\ decoded.stairs \in { 1, 2, 3 }
          /\ decoded.stairs = IF raw \in { 1, 2, 3 } THEN raw ELSE 3

\* a raw value between the members (7 is in neither enumeration) has been
\* decoded by both classes
C16_Witness ==
    /\ raw = 7
    /\ decoded.locomotion = HINT_AUTO
    /\ decoded.stairs = STAIRS_MODE_AUTO

\* C17: an invocation that is dispatching, calling the actuator or sleeping
\* in its settle delay does not own the lock; an invocation owns the lock
\* only while it prints, evaluates its sample or clears busy.
LockedStates == { "print_rel", "gate" } \cup ClearStates

C17_NoLockDuringDispatch ==
    /\ lock \in { 0 } \cup Threads
    /\ \A t \in Threads :
          /\ lock = t => pc[t] \in LockedStates
          /\ (pc[t] = "dispatch" \/ HandlerOf(pc[t]) # "none")
                => (lock = t <=> pc[t] \in ClearStates)

\* one invocation sleeps in the power handler's settle delay while another
\* holds the lock to evaluate its sample
C17_Witness ==
    \E t \in Threads, u \in Threads :
       /\ pc[t] = "pw_sleep"
       /\ pc[u] = "gate"
       /\ lock = u

\* C18: the sample-evaluation step of handle_joy never clears busy: a sample
\* evaluated while busy is true raises no trigger and leaves busy true, and
\* busy goes from true to false only in the last step of a handler.
C18_GateNeverClearsBusy ==
    [][\A t \in Threads :
          Steps(t) =>
             /\ (pc[t] = "gate" /\ pause)
                   => /\ tog'[t] = NoToggle
                      /\ pause'
             /\ (pause /\ ~pause') => pc[t] \in ClearStates]_vars

\* C19: each dispatch touches only its own mode state. A step of the power
\* or sit/stand handler leaves both indices and both hint fields unchanged
\* and makes no mobility-parameter call; a step of the locomotion handler
\* leaves stair_mode_idx and the stair hint unchanged, a step of the stairs
\* handler leaves locomotion_mode_idx and the locomotion hint unchanged, and
\* neither calls power_on, safe_power_off, sit or stand.
PoseCalls == { "power_on", "safe_power_off", "sit", "stand" }

ParamCalls == { "get_mobility_params", "set_mobility_params" }

C19_OwnModeStateOnly ==
    [][\A t \in Threads :
          Steps(t) =>
             /\ HandlerOf(pc[t]) \in { "power", "sit_stand" }
                   => /\ locomotion_mode_idx' = locomotion_mode_idx
                      /\ stair_mode_idx' = stair_mode_idx
                      /\ mobility_params' = mobility_params
                      /\ \A c \in ParamCalls : ncalls'[c] = ncalls[c]
             /\ HandlerOf(pc[t]) = "locomotion"
                   => /\ stair_mode_idx' = stair_mode_idx
                      /\ mobility_params'.stair_hint = mobility_params.stair_hint
                      /\ \A c \in PoseCalls : ncalls'[c] = ncalls[c]
             /\ HandlerOf(pc[t]) = "stairs"
                   => /\ locomotion_mode_idx' = locomotion_mode_idx
                      /\ mobility_params'.locomotion_hint
                            = mobility_params.locomotion_hint
                      /\ \A c \in PoseCalls : ncalls'[c] = ncalls[c]]_vars

\* C20: when no parameter read or write has failed, in every state with no
\* invocation in flight the stored hints agree with the indices: once the
\* locomotion cycle has fired, the stored locomotion hint is
\* valid_locomotion_hints[locomotion_mode_idx], and once the stairs cycle has
\* fired, the stored stair hint is valid_stair_hints[stair_mode_idx].
Quiescent == \A t \in Threads : pc[t] = "idle"

C20_HintsAgreeWhenQuiescent ==
    (Quiescent /\ ~iofailed) =>
       /\ nfired["locomotion"] >= 1 =>
             mobility_params.locomotion_hint
                = valid_locomotion_hints[locomotion_mode_idx + 1]
       /\ nfired["stairs"] >= 1 =>
             mobility_params.stair_hint = valid_stair_hints[stair_mode_idx + 1]

====
